---- MODULE Spec2Model ----
(***************************************************************************)
(* Direction Companion API (src/main.py): the guidance rule engine         *)
(* build_distilled_and_guidance and the four reflection handlers           *)
(* create_reflection, get_reflection, email_reflection, export_reflection  *)
(* over the "reflection" collection.                                       *)
(*                                                                         *)
(* Text the code inspects character by character (the five input fields,   *)
(* the path identifier, the format parameter) is a sequence of one-        *)
(* character strings, so that strip(), lower() and the substring test `in` *)
(* are computed.  Text the code only passes around (the literal            *)
(* suggestions, messages, e-mail addresses) is a TLA+ string.  An f-string *)
(* is the tuple of its pieces in order.  The typographic apostrophe and    *)
(* dash of the literals are written ' and -- here.                         *)
(***************************************************************************)
EXTENDS Naturals, Sequences, FiniteSets, TLC

VARIABLES
    data,       \* the ReflectionInput handed to build_distilled_and_guidance
    derived,    \* the tuple it returned, <<>> before the call
    store,      \* the "reflection" collection: _id -> document
    response,   \* the request last served and the handler's answer
    issued,     \* _id -> the summary returned by the create response
    targeted    \* _id -> address of the last e-mail request answered "queued"

vars == <<data, derived, store, response, issued, targeted>>

----------------------------------------------------------------------------
(* str methods used by the code *)

UpperAlphabet == <<"A", "B", "C", "D", "E", "F", "G", "H", "I", "J", "K", "L", "M", "N", "O", "P", "Q", "R", "S", "T", "U", "V", "W", "X", "Y", "Z">>

LowerAlphabet == <<"a", "b", "c", "d", "e", "f", "g", "h", "i", "j", "k", "l", "m", "n", "o", "p", "q", "r", "s", "t", "u", "v", "w", "x", "y", "z">>

Whitespace == {" ", "\t", "\n", "\r"}

UpperLetters == {UpperAlphabet[i] : i \in 1..Len(UpperAlphabet)}

ToLower ==
    [c \in UpperLetters |->
        LowerAlphabet[CHOOSE i \in 1..Len(UpperAlphabet) : UpperAlphabet[i] = c]]

LowerChar(c) == IF c \in UpperLetters THEN ToLower[c] ELSE c

\* str.lower()
lower(s) == [i \in 1..Len(s) |-> LowerChar(s[i])]

\* str.strip(): leading and trailing whitespace removed
strip(s) ==
    LET kept == {i \in 1..Len(s) : s[i] \notin Whitespace}
    IN  IF kept = {} THEN <<>>
        ELSE SubSeq(s, CHOOSE i \in kept : \A j \in kept : i <= j,
                       CHOOSE i \in kept : \A j \in kept : j <= i)

\* k in s, for strings
contains(k, s) ==
    \E i \in 0..Len(s) : i + Len(k) <= Len(s) /\ SubSeq(s, i + 1, i + Len(k)) = k

\* any(k in s for k in keys)
any_in(keys, s) == \E n \in 1..Len(keys) : contains(keys[n], s)

----------------------------------------------------------------------------
(* The keywords and literals of build_distilled_and_guidance *)

kw_career == <<"c", "a", "r", "e", "e", "r">>
kw_growth == <<"g", "r", "o", "w", "t", "h">>
kw_mindset == <<"m", "i", "n", "d", "s", "e", "t">>
kw_purpose == <<"p", "u", "r", "p", "o", "s", "e">>
kw_relationship == <<"r", "e", "l", "a", "t", "i", "o", "n", "s", "h", "i", "p">>
kw_decision == <<"d", "e", "c", "i", "s", "i", "o", "n">>

UrgencyKeywords ==
    << <<"n", "o", "w">>, <<"t", "o", "d", "a", "y">>, <<"1">>, <<"o", "n", "e">>,
       <<"2">>, <<"s", "o", "o", "n">>, <<"w", "e", "e", "k">> >>

StuckKeywords ==
    << <<"s", "t", "u", "c", "k">>, <<"l", "o", "s", "t">>,
       <<"o", "v", "e", "r", "w", "h", "e", "l", "m", "e", "d">>,
       <<"a", "n", "x", "i", "o", "u", "s">> >>

HopefulKeywords ==
    << <<"h", "o", "p", "e", "f", "u", "l">>, <<"e", "x", "c", "i", "t", "e", "d">>,
       <<"c", "u", "r", "i", "o", "u", "s">>, <<"r", "e", "a", "d", "y">> >>

CareerPair ==
    << "List 3 roles or paths that genuinely excite you.",
       "Draft a tiny experiment for each (coffee chat, 1-day trial project, or a short course)." >>

MindsetPair ==
    << "Write a 2-sentence reframe of your current self-talk.",
       "Choose one practice to repeat daily for 7 days (journaling, meditation, or movement)." >>

PurposePair ==
    << "Identify a person or group you want to positively impact this month.",
       "Describe how your strengths could serve them in one simple action." >>

RelationshipPair ==
    << "Note one honest feeling you haven't voiced yet--then plan a gentle, specific share.",
       "Ask one curious question that invites deeper understanding." >>

DecisionPair ==
    << "Write the 2 best options. For each, list 3 pros, 3 cons, and how Future-You feels.",
       "Do a 24-hour pause after deciding, then re-check your felt sense." >>

UrgencyNudge == "Pick the smallest 15-minute action and schedule it in your calendar right now."

SlotNudge == "Block a 30-minute slot this week to design your next step without distractions."

NeutralLine == "Progress comes from gentle steps."

ReassuranceLine == "You're not behind. Even one clear, kind step is real momentum."

MomentumLine == "Your curiosity is the signal--follow it lightly."

----------------------------------------------------------------------------
(* build_distilled_and_guidance *)

\* the f-string of the distilled sentence
distilled_of(feeling, area, challenge, desired) ==
    << "You're feeling ", feeling, " and seeking direction in ", area, ". ",
       "The core block seems to be: ", challenge, ". ",
       "You hope to come away with: ", desired, "." >>

\* area_guidance with the five tests chained by elif: the first match only
area_guidance_elif(area) ==
    IF contains(kw_career, area) THEN CareerPair
    ELSE IF contains(kw_growth, area) \/ contains(kw_mindset, area) THEN MindsetPair
    ELSE IF contains(kw_purpose, area) THEN PurposePair
    ELSE IF contains(kw_relationship, area) THEN RelationshipPair
    ELSE IF contains(kw_decision, area) THEN DecisionPair
    ELSE <<>>

\* the area-based suggestions: five independent tests, each appending its pair
area_guidance(area) ==
    (IF contains(kw_career, area) THEN CareerPair ELSE <<>>)
    \o (IF contains(kw_growth, area) \/ contains(kw_mindset, area) THEN MindsetPair ELSE <<>>)
    \o (IF contains(kw_purpose, area) THEN PurposePair ELSE <<>>)
    \o (IF contains(kw_relationship, area) THEN RelationshipPair ELSE <<>>)
    \o (IF contains(kw_decision, area) THEN DecisionPair ELSE <<>>)

\* timeline_nudge with the last keyword of the list left out
timeline_nudge_short_list(timeline) ==
    IF any_in(SubSeq(UrgencyKeywords, 1, Len(UrgencyKeywords) - 1), timeline)
    THEN UrgencyNudge
    ELSE SlotNudge

\* the timeline-based nudge
timeline_nudge(timeline) ==
    IF any_in(UrgencyKeywords, timeline) THEN UrgencyNudge ELSE SlotNudge

\* the feeling-based message: a default and two successive, independent
\* overriding ifs
uplifting_of(feeling) ==
    LET u0 == NeutralLine
        u1 == IF any_in(StuckKeywords, feeling) THEN ReassuranceLine ELSE u0
        u2 == IF any_in(HopefulKeywords, feeling) THEN MomentumLine ELSE u1
    IN  u2

build_distilled_and_guidance(d) ==
    LET feeling == lower(strip(d.feeling))
        area == lower(strip(d.area))
        challenge == strip(d.challenge)
        desired == strip(d.desired_outcome)
        timeline == lower(strip(d.action_timeline))
    IN  << distilled_of(feeling, area, challenge, desired),
           Append(area_guidance(area), timeline_nudge(timeline)),
           uplifting_of(feeling) >>

----------------------------------------------------------------------------
(* The guidance engine on its own: inputs drawn at Init, one call *)

sp == <<" ">>
and == <<" ", "a", "n", "d", " ">>

AreaKeywords == <<kw_career, kw_growth, kw_mindset, kw_purpose, kw_relationship, kw_decision>>

RECURSIVE join_and(_, _)
\* the keywords of AreaKeywords whose index is in S, in index order, joined by " and "
join_and(S, n) ==
    IF n > Len(AreaKeywords) THEN <<>>
    ELSE LET rest == join_and(S, n + 1)
         IN  IF n \notin S THEN rest
             ELSE IF rest = <<>> THEN AreaKeywords[n]
             ELSE AreaKeywords[n] \o and \o rest

AreaInputs ==
    {join_and(S, 1) : S \in SUBSET (1..Len(AreaKeywords))}
    \cup { kw_purpose \o and \o kw_career,
           kw_decision \o sp \o kw_relationship \o sp \o kw_purpose \o sp \o kw_mindset
               \o sp \o kw_growth \o sp \o kw_career,
           <<" ", " ", "C", "a", "r", "e", "e", "r", " ", " ">>,
           <<"G", "R", "O", "W", "T", "H", " ", "M", "i", "n", "d", "s", "e", "t">>,
           <<"l", "i", "f", "e">>,
           <<"c", "a", "r", "e">> }

FeelingInputs ==
    {StuckKeywords[i] : i \in 1..Len(StuckKeywords)}
    \cup {HopefulKeywords[i] : i \in 1..Len(HopefulKeywords)}
    \cup {StuckKeywords[i] \o and \o HopefulKeywords[j] :
              i \in 1..Len(StuckKeywords), j \in 1..Len(HopefulKeywords)}
    \cup {HopefulKeywords[i] \o and \o StuckKeywords[i] : i \in 1..Len(HopefulKeywords)}
    \cup { <<>>,
           <<"c", "a", "l", "m">>,
           <<" ", "L", "o", "s", "t", "\n">>,
           <<"A", "L", "R", "E", "A", "D", "Y">>,
           <<"s", "t", "u", "c">> }

TimelineInputs ==
    {UrgencyKeywords[i] : i \in 1..Len(UrgencyKeywords)}
    \cup { <<"n", "e", "x", "t", " ", "w", "e", "e", "k">>,
           <<"e", "v", "e", "n", "t", "u", "a", "l", "l", "y">>,
           <<"t", "h", "i", "s", " ", "w", "e", "e", "k">>,
           <<"s", "o", "m", "e", "d", "a", "y">>,
           <<"I", "n", " ", "3", " ", "M", "o", "n", "t", "h", "s">>,
           <<" ", " ", "T", "O", "D", "A", "Y", " ">>,
           <<"t", "o", "m", "o", "r", "r", "o", "w">>,
           <<"n", "o", " ", "w", "a", "y">>,
           <<>> }

ChallengeInputs ==
    { <<"n", "o", " ", "c", "l", "a", "r", "i", "t", "y">>,
      <<" ", "T", "o", "o", " ", "M", "a", "n", "y", " ">> }

DesiredInputs == { <<"a", " ", "p", "l", "a", "n">> }

ReflectionInput ==
    [feeling : FeelingInputs, area : AreaInputs, challenge : ChallengeInputs,
     desired_outcome : DesiredInputs, action_timeline : TimelineInputs]

NoStore == [i \in {} |-> i]

NoResponse == [op |-> "none"]

InitEngine ==
    /\ data \in ReflectionInput
    /\ derived = <<>>
    /\ store = NoStore
    /\ response = NoResponse
    /\ issued = NoStore
    /\ targeted = NoStore

Derive ==
    /\ derived = <<>>
    /\ derived' = build_distilled_and_guidance(data)
    /\ UNCHANGED <<data, store, response, issued, targeted>>

NextEngine == Derive

SpecEngine == InitEngine /\ [][NextEngine]_vars

----------------------------------------------------------------------------
(* Identifiers, None, documents *)

None == "None"

HexDigits ==
    {"0", "1", "2", "3", "4", "5", "6", "7", "8", "9",
     "a", "b", "c", "d", "e", "f", "A", "B", "C", "D", "E", "F"}

\* bson.ObjectId accepts a str of exactly 24 hexadecimal digits
ObjectIdHexLen == 24

\* bson.ObjectId.is_valid(rid) for a str; ObjectId(rid) raises InvalidId otherwise
is_valid(rid) == Len(rid) = ObjectIdHexLen /\ \A i \in 1..Len(rid) : rid[i] \in HexDigits

\* ObjectId(rid) for a valid rid: the 12 bytes it denotes, written as str() writes
\* them, in lower-case hexadecimal
ObjectId(rid) == lower(rid)

\* Reflection(...).model_dump(): the five input fields as given, the generated
\* fields, and emailed_to at its default
Reflection(payload, distilled, guidance, message) ==
    [feeling |-> payload.feeling,
     area |-> payload.area,
     challenge |-> payload.challenge,
     desired_outcome |-> payload.desired_outcome,
     action_timeline |-> payload.action_timeline,
     distilled |-> distilled,
     guidance |-> guidance,
     message |-> message,
     emailed_to |-> None]

\* database.create_document: the record inserted under a new identifier
create_document(collection, inserted_id, document) ==
    (inserted_id :> document) @@ collection

\* database.get_documents with the filter {"_id": {"$eq": oid}}
get_documents(collection, oid) ==
    IF oid \in DOMAIN collection
    THEN << ("_id" :> oid) @@ collection[oid] >>
    ELSE <<>>

\* update_one replacing the matching document by the fields (replace_one)
update_one_replace(collection, oid, fields) ==
    IF oid \in DOMAIN collection
    THEN [collection EXCEPT ![oid] = fields]
    ELSE collection

\* update_one writing only where no address is recorded yet (first write wins)
update_one_first_write(collection, oid, fields) ==
    IF oid \in DOMAIN collection /\ collection[oid].emailed_to = None
    THEN [collection EXCEPT ![oid] = fields @@ @]
    ELSE collection

\* Collection.update_one(filter on _id, {"$set": fields}): the fields are set on
\* the matching document; with no match (and no upsert) nothing is written
update_one(collection, oid, fields) ==
    IF oid \in DOMAIN collection
    THEN [collection EXCEPT ![oid] = fields @@ @]
    ELSE collection

\* doc["id"] = str(doc.pop("_id"))
rename_id(doc) ==
    ("id" :> doc["_id"]) @@ [f \in (DOMAIN doc) \ {"_id"} |-> doc[f]]

\* dict.get(key, "")
get_or_empty(doc, key) == IF key \in DOMAIN doc THEN doc[key] ELSE <<>>

RECURSIVE join_bullets(_)
\* "\n- ".join(items)
join_bullets(items) ==
    IF Len(items) = 0 THEN <<>>
    ELSE IF Len(items) = 1 THEN <<items[1]>>
    ELSE <<items[1], "\n- ">> \o join_bullets(Tail(items))

\* the eight label/value pairs of export_reflection, in dict order
summary_of(doc) ==
    << <<"Feeling", get_or_empty(doc, "feeling")>>,
       <<"Area", get_or_empty(doc, "area")>>,
       <<"Challenge", get_or_empty(doc, "challenge")>>,
       <<"Desired Outcome", get_or_empty(doc, "desired_outcome")>>,
       <<"Action Timeline", get_or_empty(doc, "action_timeline")>>,
       <<"Distilled", get_or_empty(doc, "distilled")>>,
       <<"Guidance", <<"\n- ">> \o join_bullets(get_or_empty(doc, "guidance"))>>,
       <<"Message", get_or_empty(doc, "message")>> >>

----------------------------------------------------------------------------
(* Exceptions and the handlers' except clauses.  The outcome of a try body  *)
(* is [raised |-> class, ...] or [returned |-> value].                      *)

InvalidId == [raised |-> "InvalidId", text |-> "not a valid ObjectId"]

StorageError == [raised |-> "Exception", text |-> "Database not available"]

HTTPException(status_code, detail) ==
    [raised |-> "HTTPException", status_code |-> status_code, detail |-> detail]

Returned(value) == [raised |-> None, returned |-> value]

\* str(e)
str_of(e) == IF e.raised = "HTTPException" THEN <<e.status_code, ": ", e.detail>> ELSE <<e.text>>

\* create_reflection: except Exception as e -> HTTPException(500, str(e))
except_create(outcome) ==
    IF outcome.raised = None THEN outcome
    ELSE HTTPException(500, str_of(outcome))

\* get_reflection and email_reflection: except Exception as e ->
\* HTTPException(400, "Invalid id or error: ..."); HTTPException is an Exception
except_400(outcome) ==
    IF outcome.raised = None THEN outcome
    ELSE HTTPException(400, <<"Invalid id or error: ", str_of(outcome)>>)

\* export_reflection without its except HTTPException clause
except_export_no_reraise(outcome) ==
    IF outcome.raised = None THEN outcome
    ELSE HTTPException(500, str_of(outcome))

\* export_reflection: except HTTPException: raise; except Exception as e ->
\* HTTPException(500, str(e))
except_export(outcome) ==
    IF outcome.raised = None THEN outcome
    ELSE IF outcome.raised = "HTTPException" THEN outcome
    ELSE HTTPException(500, str_of(outcome))

\* what the framework sends: 200 with the returned value, or the exception's status
answer(op, rid, arg, outcome) ==
    IF outcome.raised = None
    THEN [op |-> op, rid |-> rid, arg |-> arg, status |-> 200, body |-> outcome.returned]
    ELSE [op |-> op, rid |-> rid, arg |-> arg, status |-> outcome.status_code,
          body |-> [detail |-> outcome.detail]]

----------------------------------------------------------------------------
(* The service: requests drawn from small sets *)

\* the number of documents the collection may hold
MaxDocs == 2

OidPrefix ==
    <<"6", "5", "f", "0", "c", "1", "a", "2", "b", "3", "d", "4", "e", "5", "f", "6",
      "0", "1", "2", "3", "4", "5">>

\* identifiers the store may hand out: str(result.inserted_id)
FreshIds == {OidPrefix \o <<"6", "7">>, OidPrefix \o <<"6", "8">>, OidPrefix \o <<"6", "9">>}

\* path identifiers: the above, the first of them in upper case, and malformed
\* ones (23 digits, a non-hexadecimal digit)
RidInputs ==
    FreshIds
    \cup { <<"6", "5", "F", "0", "C", "1", "A", "2", "B", "3", "D", "4", "E", "5", "F", "6",
             "0", "1", "2", "3", "4", "5", "6", "7">>,
           OidPrefix \o <<"6">>,
           OidPrefix \o <<"6", "z">> }

PayloadInputs ==
    { [feeling |-> <<"s", "t", "u", "c", "k">>,
       area |-> kw_career,
       challenge |-> <<"n", "o", " ", "c", "l", "a", "r", "i", "t", "y">>,
       desired_outcome |-> <<"a", " ", "p", "l", "a", "n">>,
       action_timeline |-> <<"t", "h", "i", "s", " ", "w", "e", "e", "k">>],
      [feeling |-> <<"S", "t", "u", "c", "k">> \o and \o <<"H", "o", "p", "e", "f", "u", "l">>,
       area |-> <<" ">> \o kw_career \o and \o kw_purpose,
       challenge |-> <<" ", "T", "o", "o", " ", "M", "a", "n", "y", " ">>,
       desired_outcome |-> <<"a", " ", "p", "l", "a", "n">>,
       action_timeline |-> <<"e", "v", "e", "n", "t", "u", "a", "l", "l", "y">>] }

\* validated EmailStr values
EmailInputs == {"a@x.io", "b@y.org"}

\* the reading of datetime.utcnow()
ClockInputs == {"t1"}

\* the query string: <<>> without a format parameter, <<value>> with one
FormatInputs ==
    { <<>>,
      << <<"p", "d", "f">> >>, << <<"x", "l", "s", "x">> >>, << <<"X", "L", "S", "X">> >>,
      << <<"c", "s", "v">> >>, << <<"x", "l", "s", "x", " ">> >> }

Init ==
    /\ data = None
    /\ derived = <<>>
    /\ store = NoStore
    /\ response = NoResponse
    /\ issued = NoStore
    /\ targeted = NoStore

\* POST /api/reflections
create_reflection(payload, inserted_id, storage_ok) ==
    \E built \in {build_distilled_and_guidance(payload)} :
        LET reflection == Reflection(payload, built[1], built[2], built[3])
            outcome == except_create(
                IF storage_ok
                THEN Returned([id |-> inserted_id, summary |-> reflection])
                ELSE StorageError)
        IN  /\ Cardinality(DOMAIN store) < MaxDocs
            /\ inserted_id \notin DOMAIN store
            /\ store' = IF storage_ok
                        THEN create_document(store, inserted_id, reflection)
                        ELSE store
            /\ response' = answer("create", None, payload, outcome)
            /\ issued' = IF outcome.raised = None
                         THEN (inserted_id :> outcome.returned.summary) @@ issued
                         ELSE issued
            /\ targeted' = IF outcome.raised = None
                           THEN (inserted_id :> None) @@ targeted
                           ELSE targeted
            /\ UNCHANGED <<data, derived>>

\* the try body of get_reflection
get_body(rid) ==
    IF ~is_valid(rid) THEN InvalidId
    ELSE LET docs == get_documents(store, ObjectId(rid))
         IN  IF docs = <<>> THEN HTTPException(404, "Reflection not found")
             ELSE Returned(rename_id(docs[1]))

\* GET /api/reflections/{rid}
get_reflection(rid) ==
    \E outcome \in {except_400(get_body(rid))} :
        /\ response' = answer("get", rid, None, outcome)
        /\ UNCHANGED <<data, derived, store, issued, targeted>>

\* email_fields also overwriting the record's message with the queue notice
email_fields_with_message(payload, now) ==
    [emailed_to |-> payload.email, updated_at |-> now,
     message |-> "Email scheduled (simulated)"]

\* the fields email_reflection sets
email_fields(payload, now) == [emailed_to |-> payload.email, updated_at |-> now]

\* the try body of email_reflection, up to the return
email_body(rid, payload) ==
    IF ~is_valid(rid) THEN InvalidId
    ELSE Returned([status |-> "queued", message |-> "Email scheduled (simulated)",
                   to |-> payload.email])

\* POST /api/reflections/{rid}/email
email_reflection(rid, payload, now) ==
    \E outcome \in {except_400(email_body(rid, payload))} :
        /\ store' = IF outcome.raised = None
                    THEN update_one(store, ObjectId(rid), email_fields(payload, now))
                    ELSE store
        /\ response' = answer("email", rid, payload, outcome)
        /\ targeted' = IF outcome.raised = None /\ ObjectId(rid) \in DOMAIN store
                       THEN [targeted EXCEPT ![ObjectId(rid)] = payload.email]
                       ELSE targeted
        /\ UNCHANGED <<data, derived, issued>>

XlsxType == "application/vnd.openxmlformats-officedocument.spreadsheetml.sheet"

PdfType == "application/pdf"

\* StreamingResponse(buffer, media_type, Content-Disposition: attachment; filename=...)
StreamingResponse(rendering, summary, media_type, filename) ==
    [rendering |-> rendering, content |-> summary, media_type |-> media_type,
     disposition |-> <<"attachment; filename=", filename>>]

\* export_body comparing the format without lower()
export_body_case_sensitive(rid, format) ==
    IF ~is_valid(rid) THEN InvalidId
    ELSE LET docs == get_documents(store, ObjectId(rid))
         IN  IF docs = <<>> THEN HTTPException(404, "Reflection not found")
             ELSE IF format = <<"x", "l", "s", "x">>
             THEN Returned(StreamingResponse("openpyxl sheet: Direction Summary",
                      summary_of(docs[1]), XlsxType,
                      <<"direction-summary-", rid, ".xlsx">>))
             ELSE Returned(StreamingResponse("reportlab page: Direction Summary",
                      summary_of(docs[1]), PdfType,
                      <<"direction-summary-", rid, ".pdf">>))

\* the try body of export_reflection, format being the parameter after its default
export_body(rid, format) ==
    IF ~is_valid(rid) THEN InvalidId
    ELSE LET docs == get_documents(store, ObjectId(rid))
         IN  IF docs = <<>> THEN HTTPException(404, "Reflection not found")
             ELSE IF lower(format) = <<"x", "l", "s", "x">>
             THEN Returned(StreamingResponse("openpyxl sheet: Direction Summary",
                      summary_of(docs[1]), XlsxType,
                      <<"direction-summary-", rid, ".xlsx">>))
             ELSE Returned(StreamingResponse("reportlab page: Direction Summary",
                      summary_of(docs[1]), PdfType,
                      <<"direction-summary-", rid, ".pdf">>))

\* GET /api/reflections/{rid}/export, format: str = "pdf"
export_reflection(rid, query) ==
    \E outcome \in {except_export(export_body(rid,
                        IF query = <<>> THEN <<"p", "d", "f">> ELSE query[1]))} :
        /\ response' = answer("export", rid, query, outcome)
        /\ UNCHANGED <<data, derived, store, issued, targeted>>

Next ==
    \/ \E payload \in PayloadInputs, inserted_id \in FreshIds, storage_ok \in BOOLEAN :
           create_reflection(payload, inserted_id, storage_ok)
    \/ \E rid \in RidInputs : get_reflection(rid)
    \/ \E rid \in RidInputs, email \in EmailInputs, now \in ClockInputs :
           email_reflection(rid, [email |-> email], now)
    \/ \E rid \in RidInputs, query \in FormatInputs : export_reflection(rid, query)

Spec == Init /\ [][Next]_vars

----------------------------------------------------------------------------
(* Properties of the guidance engine, under SpecEngine *)

Range(seq) == {seq[i] : i \in 1..Len(seq)}

StuckGroup == {<<"s", "t", "u", "c", "k">>, <<"l", "o", "s", "t">>,
               <<"o", "v", "e", "r", "w", "h", "e", "l", "m", "e", "d">>,
               <<"a", "n", "x", "i", "o", "u", "s">>}

HopefulGroup == {<<"h", "o", "p", "e", "f", "u", "l">>, <<"e", "x", "c", "i", "t", "e", "d">>,
                 <<"c", "u", "r", "i", "o", "u", "s">>, <<"r", "e", "a", "d", "y">>}

MatchesGroup(group, text) == \E k \in group : contains(k, text)

\* C1: a feeling that contains a stuck-group keyword gets the reassurance line,
\* also when it contains a hopeful-group keyword; the momentum line is returned
\* only when a hopeful keyword matches and no stuck keyword does, the neutral
\* line only when neither group matches.
C1_StuckGroupWins ==
    derived # <<>> =>
        LET feeling == lower(strip(data.feeling))
            stuck == MatchesGroup(StuckGroup, feeling)
            hopeful == MatchesGroup(HopefulGroup, feeling)
        IN  /\ stuck => derived[3] = ReassuranceLine
            /\ derived[3] = MomentumLine => hopeful /\ ~stuck
            /\ derived[3] = NeutralLine => ~hopeful /\ ~stuck

\* the categories in their fixed order: the keywords that select each, and its pair
Categories ==
    << [keys |-> {kw_career}, pair |-> CareerPair],
       [keys |-> {kw_growth, kw_mindset}, pair |-> MindsetPair],
       [keys |-> {kw_purpose}, pair |-> PurposePair],
       [keys |-> {kw_relationship}, pair |-> RelationshipPair],
       [keys |-> {kw_decision}, pair |-> DecisionPair] >>

Matching(area) ==
    {c \in 1..Len(Categories) : MatchesGroup(Categories[c].keys, area)}

CareerAndPurpose ==
    <<"c", "a", "r", "e", "e", "r", " ", "a", "n", "d", " ", "p", "u", "r", "p", "o", "s", "e">>

\* C5: guidance is the pairs of the matching categories, in the fixed category
\* order, followed by one timeline nudge: 2k+1 elements for k matching
\* categories, the c-th matching category's pair at positions 2c-1 and 2c, the
\* nudge last; five elements, career then purpose then the nudge, for the area
\* "career and purpose"; growth together with mindset gives the mindset pair once.
C5_GuidanceLayout ==
    derived # <<>> =>
        LET area == lower(strip(data.area))
            guidance == derived[2]
            matching == Matching(area)
            k == Cardinality(matching)
        IN  /\ Len(guidance) = 2 * k + 1
            /\ \A c \in matching :
                   LET before == Cardinality({b \in matching : b < c})
                   IN  /\ guidance[2 * before + 1] = Categories[c].pair[1]
                       /\ guidance[2 * before + 2] = Categories[c].pair[2]
            /\ guidance[Len(guidance)] \in {UrgencyNudge, SlotNudge}
            /\ Cardinality({i \in 1..Len(guidance) : guidance[i] = MindsetPair[1]}) <= 1
            /\ area = CareerAndPurpose =>
                   SubSeq(guidance, 1, 4) = CareerPair \o PurposePair /\ Len(guidance) = 5

\* all five categories match, growth and mindset both present: eleven elements
C5_Witness ==
    /\ derived # <<>>
    /\ contains(kw_growth, lower(strip(data.area)))
    /\ contains(kw_mindset, lower(strip(data.area)))
    /\ Cardinality(Matching(lower(strip(data.area)))) = 5
    /\ Len(derived[2]) = 11

UrgencyGroup ==
    {<<"n", "o", "w">>, <<"t", "o", "d", "a", "y">>, <<"1">>, <<"o", "n", "e">>, <<"2">>,
     <<"s", "o", "o", "n">>, <<"w", "e", "e", "k">>}

NextWeek == <<"n", "e", "x", "t", " ", "w", "e", "e", "k">>

Eventually == <<"e", "v", "e", "n", "t", "u", "a", "l", "l", "y">>

\* C6: guidance holds exactly one timeline nudge, whatever the area matched: the
\* urgency nudge iff the trimmed, lower-cased timeline contains one of now,
\* today, 1, one, 2, soon, week, and the 30-minute nudge otherwise; "next week"
\* gives the urgency nudge and "eventually" the other.
C6_ExactlyOneNudge ==
    derived # <<>> =>
        LET timeline == lower(strip(data.action_timeline))
            guidance == derived[2]
            urgent == MatchesGroup(UrgencyGroup, timeline)
            nudges == {i \in 1..Len(guidance) : guidance[i] \in {UrgencyNudge, SlotNudge}}
        IN  /\ Cardinality(nudges) = 1
            /\ urgent <=> UrgencyNudge \in Range(guidance)
            /\ ~urgent <=> SlotNudge \in Range(guidance)
            /\ timeline = NextWeek => UrgencyNudge \in Range(guidance)
            /\ timeline = Eventually => SlotNudge \in Range(guidance)

\* "next week" with an area matching two categories: the urgency nudge, once
C6_Witness ==
    /\ derived # <<>>
    /\ data.action_timeline = NextWeek
    /\ Cardinality(Matching(lower(strip(data.area)))) = 2
    /\ derived[2][5] = UrgencyNudge

----------------------------------------------------------------------------
(* Properties of the handlers, under Spec *)

\* the request last served named a well-formed identifier / one with a record
WellFormed == is_valid(response.rid)

Stored == is_valid(response.rid) /\ ObjectId(response.rid) \in DOMAIN store

GeneratedFields == {"distilled", "guidance", "message"}

InputFields == {"feeling", "area", "challenge", "desired_outcome", "action_timeline"}

\* C2: get_reflection answers 404 for a well-formed identifier with no record,
\* 400 only for a malformed identifier, and for an identifier of a record the
\* record with _id renamed to id.
C2_GetOutcomes ==
    response.op = "get" =>
        /\ WellFormed /\ ~Stored => response.status = 404
        /\ response.status = 400 => ~WellFormed
        /\ Stored =>
               /\ response.status = 200
               /\ response.body =
                      ("id" :> ObjectId(response.rid)) @@ store[ObjectId(response.rid)]

\* C3: email_reflection reports a failure, never the "queued" success, for a
\* well-formed identifier with no record and for a malformed identifier, and
\* then no record has been created.
C3_EmailFailures ==
    response.op = "email" /\ ~Stored =>
        /\ response.status \in {400, 404}
        /\ "status" \notin DOMAIN response.body
        /\ WellFormed => ObjectId(response.rid) \notin DOMAIN store

\* C4: every step keeps every stored record, with its five input fields and its
\* three generated fields as they were; only emailed_to and updated_at of an
\* existing record may change; get and export leave the store as it is.
C4_Step ==
    /\ \A id \in DOMAIN store :
           /\ id \in DOMAIN store'
           /\ \A f \in (DOMAIN store[id]) \ {"emailed_to", "updated_at"} :
                  f \in DOMAIN store'[id] /\ store'[id][f] = store[id][f]
           /\ (DOMAIN store'[id]) \ (DOMAIN store[id]) \subseteq {"emailed_to", "updated_at"}
    /\ \A id \in (DOMAIN store') \ (DOMAIN store) :
           InputFields \cup GeneratedFields \subseteq DOMAIN store'[id]
    /\ response'.op \in {"get", "export"} => store' = store

C4_RecordsImmutable == [][C4_Step]_vars

\* two records, one of them e-mailed, and an export just served
C4_Witness ==
    /\ Cardinality(DOMAIN store) = 2
    /\ \E id \in DOMAIN store : "updated_at" \in DOMAIN store[id]
    /\ response.op = "export"
    /\ response.status = 200

\* C7: export_reflection answers 404, with no file, whenever the identifier is
\* well-formed and has no record, whatever the format; a file is streamed only
\* when the record exists.
C7_ExportNotFound ==
    response.op = "export" =>
        /\ WellFormed /\ ~Stored =>
               response.status = 404 /\ "media_type" \notin DOMAIN response.body
        /\ "media_type" \in DOMAIN response.body => Stored /\ response.status = 200

\* an xlsx export of a well-formed identifier that has no record, while the
\* store holds another record
C7_Witness ==
    /\ response.op = "export"
    /\ response.arg = << <<"x", "l", "s", "x">> >>
    /\ WellFormed
    /\ ~Stored
    /\ store # NoStore
    /\ response.status = 404

\* C8: for an existing record the export is the spreadsheet (xlsx content type,
\* filename direction-summary-{id}.xlsx) exactly when the format parameter is
\* "xlsx" in any letter case; every other value, and no parameter at all, gives
\* the PDF (application/pdf, direction-summary-{id}.pdf) and never an error.
C8_FormatFallback ==
    response.op = "export" /\ Stored =>
        LET xlsx == /\ response.arg # <<>>
                    /\ Len(response.arg[1]) = 4
                    /\ \A i \in 1..4 :
                           response.arg[1][i]
                               \in {<<"x", "l", "s", "x">>[i], <<"X", "L", "S", "X">>[i]}
        IN  /\ response.status = 200
            /\ xlsx =>
                   /\ response.body.media_type = XlsxType
                   /\ response.body.disposition =
                          <<"attachment; filename=",
                            <<"direction-summary-", response.rid, ".xlsx">> >>
            /\ ~xlsx =>
                   /\ response.body.media_type = PdfType
                   /\ response.body.disposition =
                          <<"attachment; filename=",
                            <<"direction-summary-", response.rid, ".pdf">> >>

\* the parameter "XLSX" on an existing record: the spreadsheet
C8_Witness ==
    /\ response.op = "export"
    /\ Stored
    /\ response.arg = << <<"X", "L", "S", "X">> >>
    /\ response.body.media_type = XlsxType

\* C9: the summary a create response returns carries what
\* build_distilled_and_guidance produced for the payload, and every later get of
\* that identifier returns the same distilled, guidance and message.
C9_RoundTrip ==
    /\ response.op = "create" /\ response.status = 200 =>
           /\ response.body.summary.distilled = build_distilled_and_guidance(response.arg)[1]
           /\ response.body.summary.guidance = build_distilled_and_guidance(response.arg)[2]
           /\ response.body.summary.message = build_distilled_and_guidance(response.arg)[3]
           /\ issued[response.body.id] = response.body.summary
    /\ response.op = "get" /\ response.status = 200 =>
           /\ response.body.id \in DOMAIN issued
           /\ \A f \in GeneratedFields :
                  /\ f \in DOMAIN response.body
                  /\ response.body[f] = issued[response.body.id][f]

\* a get of a record that was e-mailed after its creation, another record stored
C9_Witness ==
    /\ response.op = "get"
    /\ response.status = 200
    /\ response.body.emailed_to # None
    /\ Cardinality(DOMAIN store) = 2

\* C10: a successful e-mail request answers queued with the address supplied, and
\* each record's emailed_to is the address of the last successful e-mail request
\* that named it, None if there was none.
C10_LastWriteWins ==
    /\ response.op = "email" /\ response.status = 200 =>
           /\ response.body.status = "queued"
           /\ response.body.to = response.arg.email
           /\ Stored => store[ObjectId(response.rid)].emailed_to = response.arg.email
    /\ \A id \in DOMAIN store :
           /\ id \in DOMAIN targeted
           /\ store[id].emailed_to = targeted[id]

\* two records with different addresses, the second address just written, a
\* third request having named neither
C10_Witness ==
    /\ response.op = "email"
    /\ response.status = 200
    /\ Stored
    /\ response.arg.email = "b@y.org"
    /\ \E id \in DOMAIN store : store[id].emailed_to = "a@x.io"

====
